---- MODULE Spec2Model ----
(***************************************************************************)
(* Network primitives of my-little-traceroute (package network):           *)
(*   - UDPConn  (internal/network/udp.go): the probe sender;               *)
(*   - ICMPConn (icmp.go): the response listener with timed reads;         *)
(*   - ParseICMPMessage (icmp.go): the ICMP decoder.                       *)
(* Library calls (net, syscall, x/net/icmp, x/net/ipv4) are modelled by    *)
(* what they do at the call sites of the package.                          *)
(***************************************************************************)
EXTENDS Integers, Sequences, FiniteSets, TLC

(***************************************************************************)
(* Bounds of the model.                                                    *)
(***************************************************************************)
\* TTL arguments tried are 0..MaxHops plus the edge values 255 and 256.
MaxHops == 2
\* The capture of the wire keeps the last MaxSent datagrams.
MaxSent == 1
\* UDP sockets the process may hold open at once.
MaxSockets == 2
\* The clock runs from 0 to MaxTime; a read is given 0..MaxTimeout ticks.
MaxTime == 3
MaxTimeout == 2
\* Datagrams the listening socket queues.
MaxQueue == 1
\* Raw ICMP messages of every length 0..MaxMsgLen are decoded.
MaxMsgLen == 32

(***************************************************************************)
(* Values.                                                                 *)
(***************************************************************************)
None == <<>>
Some(x) == <<x>>

\* Go errors: the message of the error and the error it wraps (%w).
NilErr == [msg |-> "nil", cause |-> "nil"]
\* An error of the library returned as is.
Bare(e) == [msg |-> "", cause |-> e]
\* fmt.Errorf(msg + ": %w", e)
Wrap(msg, e) == [msg |-> msg, cause |-> e]

VARIABLES
    \* ---- probe sender ----
    usock,      \* the caller's *UDPConn: "none" (nil), "open", "closed"
    osSockets,  \* UDP sockets open in the process
    sockTTL,    \* IP_TTL of the sender's socket: None is the OS default
    wire,       \* the datagrams last transmitted: [dst, payload, ttl]
    uret,       \* the return of the sender's last operation
    \* ---- response listener ----
    isock,      \* the listening socket: "open", "closed"
    lpc,        \* "idle", or "reading": a ReadWithTimeout is inside ReadFrom
    now,        \* the clock
    deadline,   \* the socket's read deadline: None is no deadline
    inbox,      \* datagrams queued on the socket: [src, len]
    lcall,      \* the ReadWithTimeout call in progress: [at, d, closed]
    lret,       \* the return of the listener's last operation
    \* ---- decoder ----
    msg,        \* the bytes last handed to ParseICMPMessage
    dec         \* what ParseICMPMessage returned for them

uvars == <<usock, osSockets, sockTTL, wire, uret>>
lvars == <<isock, lpc, now, deadline, inbox, lcall, lret>>
dvars == <<msg, dec>>
vars == <<uvars, lvars, dvars>>

(***************************************************************************)
(* Probe sender: udp.go                                                    *)
(***************************************************************************)
LocalAddrs == {":0", "127.0.0.1:0", "", "localhost", ":99999"}

\* net.ResolveUDPAddr("udp4", localAddr): "host:port" with a port in range;
\* the empty string resolves to the wildcard address.
ResolveUDPAddr(localAddr) ==
    IF localAddr \in {":0", "127.0.0.1:0", ""} THEN "nil"
    ELSE IF localAddr = "localhost" THEN "missing port in address"
    ELSE "invalid port"

DestAddrs == {"127.0.0.1:61337", "8.8.8.8:33434"}
\* a *net.UDPAddr argument may be nil
AddrArgs == DestAddrs \cup {"nil"}

TTLArgs == (0 .. MaxHops) \cup {255, 256}

\* syscall.SetsockoptInt(fd, IPPROTO_IP, IP_TTL, ttl): the OS accepts 1..255.
SetsockoptInt(ttl) == IF ttl \in 1 .. 255 THEN "nil" ELSE "EINVAL"

\* What the last operation returned; sys, closed and after are the facts of
\* the call the return value does not carry: the result of the inner
\* syscall (written to stderr), whether the socket was already closed when
\* the call was made, and the TTL of an immediately preceding SetTTL that
\* returned nil.
URet(op, arg, err, sys, closed, after) ==
    [op |-> op, arg |-> arg, err |-> err, sys |-> sys, closed |-> closed,
     after |-> after]

\* The TTL a SetTTL that has just returned nil asked for.
JustSetTTL ==
    IF uret.op = "SetTTL" /\ uret.err = NilErr THEN Some(uret.arg) ELSE None

\* A failure path that returns without closing the bound socket.
LeakOnRawFail(n) == n
\* conn.Close() on the failure path of NewUDPConn: of the n sockets open, the
\* one just bound is closed.
CloseOnRawFail(n) == n - 1

NewUDPConn(localAddr) ==
    /\ UNCHANGED <<lvars, dvars>>
    /\ usock # "open"
    /\ osSockets < MaxSockets
    /\ \E bindErr \in {"nil", "EADDRINUSE"}, rawErr \in {"nil", "EINVAL"} :
         LET resErr == ResolveUDPAddr(localAddr) IN
         IF resErr # "nil" THEN
            /\ usock' = "none"
            /\ uret' = URet("NewUDPConn", "nil",
                            Wrap("failed to resolve local address", resErr),
                            "nil", FALSE, None)
            /\ UNCHANGED <<osSockets, sockTTL, wire>>
         ELSE IF bindErr # "nil" THEN
            /\ usock' = "none"
            /\ uret' = URet("NewUDPConn", "nil",
                            Wrap("failed to create UDP connection", bindErr),
                            "nil", FALSE, None)
            /\ UNCHANGED <<osSockets, sockTTL, wire>>
         ELSE IF rawErr # "nil" THEN
            /\ usock' = "none"
            /\ osSockets' = CloseOnRawFail(osSockets + 1)
            /\ uret' = URet("NewUDPConn", "nil",
                            Wrap("failed to get syscall conn", rawErr),
                            "nil", FALSE, None)
            /\ UNCHANGED <<sockTTL, wire>>
         ELSE
            /\ usock' = "open"
            /\ osSockets' = osSockets + 1
            /\ sockTTL' = None
            /\ uret' = URet("NewUDPConn", "conn", NilErr, "nil", FALSE, None)
            /\ UNCHANGED wire

\* rawConn.Control(f): fails on a closed socket without running f; otherwise
\* runs f and returns nil.
Control(sock) == IF sock = "closed" THEN "ErrClosed" ELSE "nil"

\* What SetTTL returns: the error of Control. The error of the syscall inside
\* the closure is printed to stderr and dropped.
SetTTLErr(ctlErr, sysErr) == IF ctlErr # "nil" THEN Bare(ctlErr) ELSE NilErr

SetTTL(ttl) ==
    /\ usock # "none"
    /\ LET ctlErr == Control(usock)
           sysErr == IF ctlErr = "nil" THEN SetsockoptInt(ttl) ELSE "nil"
       IN /\ sockTTL' = IF ctlErr = "nil" /\ sysErr = "nil"
                        THEN Some(ttl) ELSE sockTTL
          /\ uret' = URet("SetTTL", ttl, SetTTLErr(ctlErr, sysErr), sysErr,
                          usock = "closed", None)
    /\ UNCHANGED <<usock, osSockets, wire, lvars, dvars>>

\* A probe of one zero byte.
OneBytePayload == <<0>>
\* The payload SendEmptyPacket hands to WriteToUDP: []byte{}.
ProbePayload == <<>>

\* The capture keeps the last MaxSent datagrams.
Capture(w) == IF Len(w) > MaxSent THEN Tail(w) ELSE w

\* c.WriteToUDP(b, addr): fails on a closed socket, on a nil address, or when
\* the transport refuses (netErr); otherwise one datagram leaves.
WriteToUDPErr(sock, addr, netErr) ==
    IF sock = "closed" THEN "ErrClosed"
    ELSE IF addr = "nil" THEN "errMissingAddress"
    ELSE netErr

SendEmptyPacketErr(werr) ==
    IF werr # "nil" THEN Wrap("failed to send UDP packet", werr) ELSE NilErr

SendEmptyPacket(addr) ==
    /\ usock # "none"
    /\ \E netErr \in {"nil", "ENETUNREACH"} :
         LET werr == WriteToUDPErr(usock, addr, netErr) IN
         /\ wire' = IF werr = "nil"
                    THEN Capture(Append(wire, [dst |-> addr,
                                               payload |-> ProbePayload,
                                               ttl |-> sockTTL]))
                    ELSE wire
         /\ uret' = URet("SendEmptyPacket", addr, SendEmptyPacketErr(werr),
                         "nil", usock = "closed", JustSetTTL)
    /\ UNCHANGED <<usock, osSockets, sockTTL, lvars, dvars>>

\* A Close that reports success on a socket already closed.
IdempotentCloseErr(sock) == NilErr
\* c.UDPConn.Close(): a second Close fails.
UDPCloseErr(sock) == IF sock = "closed" THEN Bare("ErrClosed") ELSE NilErr

UDPClose ==
    /\ usock # "none"
    /\ usock' = "closed"
    /\ osSockets' = IF usock = "open" THEN osSockets - 1 ELSE osSockets
    /\ uret' = URet("Close", "nil", UDPCloseErr(usock), "nil",
                    usock = "closed", None)
    /\ UNCHANGED <<sockTTL, wire, lvars, dvars>>

SenderNext ==
    \/ \E a \in LocalAddrs : NewUDPConn(a)
    \/ \E t \in TTLArgs : SetTTL(t)
    \/ \E a \in AddrArgs : SendEmptyPacket(a)
    \/ UDPClose

(***************************************************************************)
(* Response listener: icmp.go                                              *)
(***************************************************************************)
\* MaxPacketSize is the maximum size of an ICMP packet (Ethernet MTU).
MaxPacketSize == 1500

\* Datagrams that may arrive: one of the size the test reads, one longer than
\* the receive buffer.
Packets == [src : {"192.0.2.1"}, len : {10, MaxPacketSize + 1}]

Timeouts == 0 .. MaxTimeout

\* The errors the library hands back, by what the code asks of them:
\* whether the error is a net.Error, and what its Timeout() says.
IsNetError(e) == e \in {"ErrDeadlineExceeded", "ErrClosed", "ECONNREFUSED"}
Timeout(e) == e = "ErrDeadlineExceeded"

\* I/O failures of a read that are neither the deadline nor a closed socket:
\* a net.OpError over an errno, and an error that is no net.Error.
IOErrors == {"ECONNREFUSED", "errInvalidConn"}

LRet(op, err, raw, read, closed, ip, n) ==
    [op |-> op, err |-> err, raw |-> raw, read |-> read, closed |-> closed,
     ip |-> ip, n |-> n]

\* c.conn.SetReadDeadline(t): fails on a closed socket.
SetReadDeadlineErr(sock) == IF sock = "closed" THEN "ErrClosed" ELSE "nil"

\* A call that leaves the socket's deadline as it finds it.
StaleDeadline(t, d) == deadline
\* time.Now().Add(timeout): the deadline a call arms.
ArmDeadline(t, d) == Some(t + d)

\* The deadline of the socket has passed.
Expired == deadline # None /\ now >= deadline[1]

\* A classification that asks only whether the error is a net.Error.
TimeoutUnchecked(rerr) ==
    IF IsNetError(rerr) THEN [msg |-> "read timeout", cause |-> "nil"]
    ELSE Wrap("failed to read ICMP message", rerr)
\* How ReadWithTimeout reports a failed ReadFrom.
ReadErr(rerr) ==
    IF IsNetError(rerr) /\ Timeout(rerr)
    THEN [msg |-> "read timeout", cause |-> "nil"]
    ELSE Wrap("failed to read ICMP message", rerr)

\* ReadWithTimeout up to the point where ReadFrom blocks: arm the deadline,
\* return at once if that fails, else enter ReadFrom. (A call is made only
\* while its deadline lies within the clock's range.)
ReadWithTimeout(timeout) ==
    /\ lpc = "idle"
    /\ now + timeout <= MaxTime
    /\ LET dlErr == SetReadDeadlineErr(isock) IN
       IF dlErr # "nil" THEN
          /\ lret' = LRet("ReadWithTimeout",
                          Wrap("failed to set read deadline", dlErr),
                          "nil", FALSE, isock = "closed", "nil", 0)
          /\ UNCHANGED <<lpc, deadline, lcall>>
       ELSE
          /\ deadline' = ArmDeadline(now, timeout)
          /\ lcall' = [at |-> now, d |-> timeout, closed |-> isock = "closed"]
          /\ lpc' = "reading"
          /\ UNCHANGED lret
    /\ UNCHANGED <<isock, now, inbox, uvars, dvars>>

\* ReadFrom returns: the socket was closed, the deadline passed, or a
\* datagram is there (cut to the buffer's MaxPacketSize bytes); otherwise it
\* keeps blocking.
ReadFromReturns ==
    /\ lpc = "reading"
    /\ isock = "closed" \/ Expired \/ inbox # <<>>
    /\ LET rerr == IF isock = "closed" THEN "ErrClosed"
                   ELSE IF Expired THEN "ErrDeadlineExceeded"
                   ELSE "nil"
           n == IF Head(inbox).len > MaxPacketSize
                THEN MaxPacketSize ELSE Head(inbox).len
       IN IF rerr # "nil" THEN
             /\ lret' = LRet("ReadWithTimeout", ReadErr(rerr), rerr, TRUE,
                             FALSE, "nil", 0)
             /\ UNCHANGED inbox
          ELSE
             /\ lret' = LRet("ReadWithTimeout", NilErr, "nil", TRUE, FALSE,
                             Head(inbox).src, n)
             /\ inbox' = Tail(inbox)
    /\ lpc' = "idle"
    /\ UNCHANGED <<isock, now, deadline, lcall, uvars, dvars>>

\* ReadFrom fails for another reason while it blocks.
ReadFromFails(e) ==
    /\ lpc = "reading"
    /\ isock = "open"
    /\ ~Expired
    /\ lret' = LRet("ReadWithTimeout", ReadErr(e), e, TRUE, FALSE, "nil", 0)
    /\ lpc' = "idle"
    /\ UNCHANGED <<isock, now, deadline, inbox, lcall, uvars, dvars>>

\* c.conn.Close(); it may come while a read blocks.
ICMPClose ==
    /\ isock' = "closed"
    /\ lret' = LRet("Close",
                    IF isock = "closed" THEN Bare("ErrClosed") ELSE NilErr,
                    "nil", FALSE, isock = "closed", "nil", 0)
    /\ inbox' = <<>>
    /\ UNCHANGED <<lpc, now, deadline, lcall, uvars, dvars>>

\* The network delivers a datagram to the listening socket.
Arrive(p) ==
    /\ isock = "open"
    /\ Len(inbox) < MaxQueue
    /\ inbox' = Append(inbox, p)
    /\ UNCHANGED <<isock, lpc, now, deadline, lcall, lret, uvars, dvars>>

\* Time passes.
Tick ==
    /\ now < MaxTime
    /\ now' = now + 1
    /\ UNCHANGED <<isock, lpc, deadline, inbox, lcall, lret, uvars, dvars>>

ListenerNext ==
    \/ \E d \in Timeouts : ReadWithTimeout(d)
    \/ ReadFromReturns
    \/ \E e \in IOErrors : ReadFromFails(e)
    \/ ICMPClose
    \/ \E p \in Packets : Arrive(p)
    \/ Tick

(***************************************************************************)
(* ICMP decoder: icmp.go. Bytes are 0..255; msg[1] is the first byte.      *)
(***************************************************************************)
ICMPTypeEchoReply == 0
ICMPTypeTimeExceeded == 11

\* The ICMP types with a body parser of their own in x/net/icmp (destination
\* unreachable, time exceeded, parameter problem, echo, echo reply); any
\* other type, such as redirect (5), gets a raw body.
MultipartTypes == {3, 11, 12}
EchoTypes == {0, 8}

Drop(b, n) == SubSeq(b, n + 1, Len(b))
Take(b, n) == SubSeq(b, 1, IF n < Len(b) THEN n ELSE Len(b))
U16(hi, lo) == hi * 256 + lo

\* icmp.validExtensionHeader: version 2 and a checksum field of zero.
ValidExtensionHeader(b) ==
    /\ Len(b) >= 4
    /\ b[1] \div 16 = 2
    /\ U16(b[3], b[4]) = 0

\* icmp.parseExtensions, for the types above: the length of the original
\* datagram field when an extension structure follows it, None when there is
\* no extension. A length attribute below 128, or one that leaves no room
\* for an extension, is taken as 128.
ParseExtensions(b, l) ==
    LET l1 == IF 128 > l \/ l + 8 > Len(b) THEN 128 ELSE l IN
    IF l1 + 8 > Len(b) THEN None
    ELSE IF ValidExtensionHeader(Drop(b, l1)) THEN Some(l1)
    ELSE IF l1 # 128 /\ ValidExtensionHeader(Drop(b, 128)) THEN Some(128)
    ELSE None

\* icmp.parseMultipartMessageBody: the Data of a time exceeded (destination
\* unreachable, parameter problem) body b; None is a nil slice.
MultipartData(b) ==
    IF Len(b) = 4 THEN None
    ELSE LET ext == ParseExtensions(Drop(b, 4), 4 * b[2])
             l == IF ext = None THEN Len(b) - 4 ELSE ext[1]
         IN IF l > 0 THEN Some(Take(Drop(b, 4), l)) ELSE None

\* icmp.ParseMessage(1, b): the envelope (type, code, checksum) and the body
\* parsed by the type's parser.
ParseMessage(b) ==
    IF Len(b) < 4 THEN
        [err |-> "message too short", type |-> 0, kind |-> "none",
         data |-> None]
    ELSE LET rest == Drop(b, 4) IN
         IF b[1] \in MultipartTypes \cup EchoTypes /\ Len(rest) < 4 THEN
             [err |-> "message too short", type |-> 0, kind |-> "none",
              data |-> None]
         ELSE IF b[1] = ICMPTypeTimeExceeded THEN
             [err |-> "nil", type |-> b[1], kind |-> "TimeExceeded",
              data |-> MultipartData(rest)]
         ELSE IF b[1] \in MultipartTypes THEN
             [err |-> "nil", type |-> b[1], kind |-> "Multipart",
              data |-> MultipartData(rest)]
         ELSE IF b[1] \in EchoTypes THEN
             [err |-> "nil", type |-> b[1], kind |-> "Echo",
              data |-> Some(Drop(rest, 4))]
         ELSE
             [err |-> "nil", type |-> b[1], kind |-> "RawBody",
              data |-> Some(rest)]

\* ipv4.ParseHeader(b): b is None (nil) or Some(bytes). The header needs 20
\* bytes and as many as its own length field (the low nibble of the first
\* byte, in 32-bit words) says; nothing else is validated.
ParseHeader(d) ==
    IF d = None THEN [err |-> "nil header", header |-> None]
    ELSE LET b == d[1]
             hdrlen == (b[1] % 16) * 4
         IN IF Len(b) < 20 THEN [err |-> "header too short", header |-> None]
            ELSE IF Len(b) < hdrlen
            THEN [err |-> "extension header too short", header |-> None]
            ELSE [err |-> "nil",
                  header |-> Some([Version |-> b[1] \div 16,
                                   Len |-> hdrlen,
                                   TOS |-> b[2],
                                   TotalLen |-> U16(b[3], b[4]),
                                   ID |-> U16(b[5], b[6]),
                                   Flags |-> b[7] \div 32,
                                   FragOff |-> U16(b[7] % 32, b[8]),
                                   TTL |-> b[9],
                                   Protocol |-> b[10],
                                   Checksum |-> U16(b[11], b[12]),
                                   Src |-> SubSeq(b, 13, 16),
                                   Dst |-> SubSeq(b, 17, 20),
                                   Options |-> SubSeq(b, 21, hdrlen)])]

DRet(type, header, err) == [type |-> type, header |-> header, err |-> err]

\* fmt.Errorf("unexpected ICMP message type: %v", icmpType)
UnexpectedTypeErr(t) ==
    [msg |-> "unexpected ICMP message type", cause |-> "nil", type |-> t]

\* parseTimeExceededMessage(m)
parseTimeExceededMessage(m) ==
    IF m.kind # "TimeExceeded" THEN
        DRet(ICMPTypeTimeExceeded, None,
             Wrap("invalid TimeExceeded message body", "nil"))
    ELSE LET h == ParseHeader(m.data) IN
         IF h.err # "nil" THEN
             DRet(ICMPTypeTimeExceeded, None,
                  Wrap("failed to parse IP header", h.err))
         ELSE DRet(ICMPTypeTimeExceeded, h.header, NilErr)

\* The switch without its time exceeded case.
ParseNoTimeExceededCase(b) ==
    LET m == ParseMessage(b) IN
    IF m.err # "nil" THEN
        DRet(0, None, Wrap("failed to parse ICMP message", m.err))
    ELSE IF m.type = ICMPTypeEchoReply THEN DRet(m.type, None, NilErr)
    ELSE DRet(m.type, None, UnexpectedTypeErr(m.type))

\* The switch with a default case that lets the message pass.
ParseDefaultPasses(b) ==
    LET m == ParseMessage(b) IN
    IF m.err # "nil" THEN
        DRet(0, None, Wrap("failed to parse ICMP message", m.err))
    ELSE IF m.type = ICMPTypeTimeExceeded THEN parseTimeExceededMessage(m)
    ELSE DRet(m.type, None, NilErr)

\* ParseICMPMessage(msg). With protocol 1 every type the envelope carries is
\* an ipv4.ICMPType, so the type assertion of the code holds.
ParseICMPMessage(b) ==
    LET m == ParseMessage(b) IN
    IF m.err # "nil" THEN
        DRet(0, None, Wrap("failed to parse ICMP message", m.err))
    ELSE IF m.type = ICMPTypeTimeExceeded THEN parseTimeExceededMessage(m)
    ELSE IF m.type = ICMPTypeEchoReply THEN DRet(m.type, None, NilErr)
    ELSE DRet(m.type, None, UnexpectedTypeErr(m.type))

\* The messages decoded: an ICMP header of each type, then an IPv4 header
\* (first byte 0x45, 0x46, 0x4F or 0x40; TTL 1 or 64) and zeros, cut at
\* every length.
ICMPTypes == {0, 3, 5, 8, 11, 12}
RECURSIVE Zeros(_)
Zeros(n) == IF n <= 0 THEN <<>> ELSE <<0>> \o Zeros(n - 1)
FullMessage(type, lenAttr, b0, ttl) ==
    LET m == <<type, 0, 244, 255, 0, lenAttr, 0, 0>>
             \o <<b0, 0, 0, 28, 0, 1, 0, 0, ttl, 17, 0, 0>>
             \o <<10, 0, 0, 1, 8, 8, 8, 8>>
    IN m \o Zeros(MaxMsgLen - Len(m))
Messages ==
    { Take(FullMessage(t, la, b0, ttl), n) :
        t \in ICMPTypes, la \in {0, 5}, b0 \in {69, 70, 79, 64},
        ttl \in {1, 64}, n \in 0 .. MaxMsgLen }

\* One decoding: dec is None until ParseICMPMessage has returned.
Decode ==
    /\ dec = None
    /\ dec' = Some(ParseICMPMessage(msg))
    /\ UNCHANGED <<msg, uvars, lvars>>

\* No sender yet: NewUDPConn has not been called.
UInit ==
    /\ usock = "none"
    /\ osSockets = 0
    /\ sockTTL = None
    /\ wire = <<>>
    /\ uret = URet("none", "nil", NilErr, "nil", FALSE, None)

\* The listener as NewICMPConn returns it: open, no deadline, nothing queued.
LInit ==
    /\ isock = "open"
    /\ lpc = "idle"
    /\ now = 0
    /\ deadline = None
    /\ inbox = <<>>
    /\ lcall = [at |-> 0, d |-> 0, closed |-> FALSE]
    /\ lret = LRet("none", NilErr, "nil", FALSE, FALSE, "nil", 0)

\* Nothing handed to the decoder.
DInit ==
    /\ msg = <<>>
    /\ dec = None

Init == UInit /\ LInit /\ DInit

\* The decoder is a pure function: it is applied to each message.
InitDecode == UInit /\ LInit /\ msg \in Messages /\ dec = None

SpecDecode == InitDecode /\ [][Decode]_vars

\* The whole package.
Next == SenderNext \/ ListenerNext \/ Decode

Spec == Init /\ [][Next]_vars

SpecSender == Init /\ [][SenderNext]_vars

SpecListener == Init /\ [][ListenerNext]_vars

\* Both sockets. The sender and the listener share no state (uvars and lvars
\* are disjoint and no action reads the other's), so a property that is a
\* conjunction of one predicate per socket holds of their interleaving iff
\* it holds of each socket run from Init with the other left alone; these
\* are the runs taken here.
SocketsNext ==
    \/ LInit /\ SenderNext
    \/ UInit /\ ListenerNext

SpecSockets == Init /\ [][SocketsNext]_vars

\* Time advances, and a ReadFrom that can return does.
FairListener ==
    SpecListener /\ WF_vars(Tick) /\ WF_vars(ReadFromReturns)

(***************************************************************************)
(* Claims about the probe sender.                                          *)
(***************************************************************************)

\* C1: whenever the socket-option operation setting the IP TTL fails inside
\* SetTTL(ttl), SetTTL returns a non-nil error; SetTTL returns nil only if the
\* TTL option was actually applied to the socket.
C1_SetTTLReportsFailure ==
    uret.op = "SetTTL" =>
        /\ (uret.sys # "nil" => uret.err # NilErr)
        /\ (uret.err = NilErr => sockTTL = Some(uret.arg))

\* C7: when SetTTL(t) returned nil and the next operation on the socket is a
\* SendEmptyPacket that transmits, the datagram carries TTL t.
C7_SendCarriesLastTTL ==
    (/\ uret.op = "SendEmptyPacket"
     /\ uret.err = NilErr
     /\ uret.after # None)
        => /\ wire # <<>>
           /\ wire[Len(wire)].ttl = uret.after

\* C8: a SendEmptyPacket(addr) that returns nil has put exactly one datagram
\* on the wire, of payload length zero and destination addr, whatever SetTTL
\* calls came before; a failed send transmits nothing; SetTTL changes only
\* the socket's TTL and leaves the wire as it was.
C8_SendStep ==
    /\ (uret'.op = "SendEmptyPacket" /\ uret'.err = NilErr)
          => /\ wire' # <<>>
             /\ wire' = Capture(Append(wire, wire'[Len(wire')]))
             /\ Len(wire'[Len(wire')].payload) = 0
             /\ wire'[Len(wire')].dst = uret'.arg
             /\ wire'[Len(wire')].ttl = sockTTL
    /\ (uret'.op = "SendEmptyPacket" /\ uret'.err # NilErr) => wire' = wire
    /\ uret'.op = "SetTTL" => UNCHANGED <<wire, usock, osSockets>>

C8_SendIsEmptyToAddr == [][C8_SendStep]_vars

\* A send to the second destination after a SetTTL that took effect.
C8_Witness ==
    /\ uret.op = "SendEmptyPacket"
    /\ uret.err = NilErr
    /\ uret.after = Some(MaxHops)
    /\ wire # <<>>
    /\ wire[Len(wire)] = [dst |-> "8.8.8.8:33434", payload |-> <<>>,
                          ttl |-> Some(MaxHops)]

\* C10: NewUDPConn returns either a non-nil connection, a nil error and one
\* open socket owned by that connection, or a nil connection, a non-nil
\* error and no socket left open (also when the raw descriptor accessor
\* failed after the socket was bound).
C10_NewUDPConnOutcomes ==
    uret.op = "NewUDPConn" =>
        \/ /\ uret.arg = "conn"
           /\ uret.err = NilErr
           /\ usock = "open"
           /\ osSockets = 1
        \/ /\ uret.arg = "nil"
           /\ uret.err # NilErr
           /\ usock = "none"
           /\ osSockets = 0

\* NewUDPConn failed at the step after the bind.
C10_Witness ==
    /\ uret.op = "NewUDPConn"
    /\ uret.err = Wrap("failed to get syscall conn", "EINVAL")
    /\ osSockets = 0

(***************************************************************************)
(* Claims about both sockets.                                              *)
(***************************************************************************)

\* C3: after Close() has been called on a sender or listener socket, every
\* later SetTTL, SendEmptyPacket, ReadWithTimeout or Close on that socket
\* returns a non-nil error, and a ReadWithTimeout called on a closed
\* listener never enters the blocking read.
C3_ClosedSocketFails ==
    /\ (uret.op \in {"SetTTL", "SendEmptyPacket", "Close"} /\ uret.closed)
          => uret.err # NilErr
    /\ (lret.op \in {"ReadWithTimeout", "Close"} /\ lret.closed)
          => lret.err # NilErr
    /\ lpc = "reading" => ~lcall.closed

\* A second Close on the sender's socket.
C3_Witness ==
    /\ uret.op = "Close"
    /\ uret.closed
    /\ uret.err = Bare("ErrClosed")

(***************************************************************************)
(* Claims about the response listener.                                     *)
(***************************************************************************)
ReadTimeoutErr == [msg |-> "read timeout", cause |-> "nil"]

\* C2: a ReadWithTimeout whose underlying read failed returns the "read
\* timeout" error if and only if the read failed because the deadline
\* expired, and otherwise returns a different error wrapping the cause.
C2_ReadFailureClassified ==
    (lret.op = "ReadWithTimeout" /\ lret.read /\ lret.raw # "nil") =>
        /\ lret.err # NilErr
        /\ lret.raw = "ErrDeadlineExceeded" <=> lret.err = ReadTimeoutErr
        /\ lret.raw # "ErrDeadlineExceeded" =>
              lret.err = Wrap("failed to read ICMP message", lret.raw)

\* A read that failed on a socket closed under it: a net.Error that is no
\* timeout.
C2_Witness ==
    /\ lret.op = "ReadWithTimeout"
    /\ lret.read
    /\ lret.raw = "ErrClosed"
    /\ lret.err = Wrap("failed to read ICMP message", "ErrClosed")

\* A read returns on an open socket whose deadline has passed.
C4_ReturnAtDeadline ==
    (lpc = "reading" /\ lpc' = "idle" /\ isock = "open" /\ Expired)
        => lret'.err = ReadTimeoutErr

\* C4: every ReadWithTimeout(d) that blocks in its read eventually returns,
\* and a return on an open listener whose deadline has passed is the
\* timeout error.
C4_ReadReturns ==
    /\ (lpc = "reading") ~> (lpc = "idle")
    /\ [][C4_ReturnAtDeadline]_vars

\* A read on an open listener with nothing queued returned the timeout error
\* when its deadline had passed.
C4_Witness ==
    /\ lpc = "idle"
    /\ isock = "open"
    /\ inbox = <<>>
    /\ lret.op = "ReadWithTimeout"
    /\ lret.err = ReadTimeoutErr
    /\ lcall.d > 0
    /\ now >= lcall.at + lcall.d

\* C9: the deadline that governs a read is the one armed by the same call
\* (call time + d); a call whose arming failed returns an error without
\* having attempted a read, and every read attempted was armed first.
C9_FreshDeadline ==
    /\ lpc = "reading" => deadline = Some(lcall.at + lcall.d)
    /\ (lret.op = "ReadWithTimeout"
        /\ lret.err.msg = "failed to set read deadline")
          => ~lret.read /\ lret.raw = "nil"
    /\ (lret.op = "ReadWithTimeout" /\ lret.read)
          => deadline = Some(lcall.at + lcall.d)

\* A second call blocks in its read under its own, later deadline.
C9_Witness ==
    /\ lpc = "reading"
    /\ lret.op = "ReadWithTimeout"
    /\ lret.read
    /\ lcall.at > 0
    /\ deadline = Some(lcall.at + lcall.d)

(***************************************************************************)
(* Claims about the decoder.                                               *)
(***************************************************************************)
\* What the message carries after its 8-byte ICMP header.
EmbeddedPayload == Some(Drop(msg, 8))

\* The message is of type time exceeded and the bytes it embeds parse as an
\* IPv4 header.
TimeExceededWithHeader ==
    /\ Len(msg) >= 8
    /\ msg[1] = 11
    /\ ParseHeader(EmbeddedPayload).err = "nil"

\* C5: the result of ParseICMPMessage carries a header if and only if the
\* message is of type time exceeded and its embedded payload parses as an
\* IPv4 header; a header never comes with an error, and its fields are those
\* of the embedded bytes.
C5_HeaderIffTimeExceeded ==
    dec # None =>
        LET r == dec[1] IN
        /\ r.header # None <=> TimeExceededWithHeader
        /\ r.header # None =>
              /\ r.err = NilErr
              /\ r.type = 11
              /\ r.header[1].TTL = msg[17]
              /\ r.header[1].Protocol = msg[18]
              /\ r.header[1].Src = SubSeq(msg, 21, 24)
              /\ r.header[1].Dst = SubSeq(msg, 25, 28)

\* A time exceeded message embedding a 24-byte header of TTL 1 was decoded.
C5_Witness ==
    /\ dec # None
    /\ dec[1].header # None
    /\ dec[1].header[1].TTL = 1
    /\ dec[1].header[1].Len = 24

\* C6: for a well-formed ICMP message, ParseICMPMessage returns a nil error
\* exactly when the type is echo reply or the type is time exceeded with a
\* parseable embedded header; for any other type it returns that type, no
\* header and an error naming the type.
C6_ErrorIffUnhandled ==
    (dec # None /\ ParseMessage(msg).err = "nil") =>
        LET r == dec[1] IN
        /\ r.err = NilErr <=> (msg[1] = 0 \/ TimeExceededWithHeader)
        /\ msg[1] = 0 => r = DRet(0, None, NilErr)
        /\ msg[1] \notin {0, 11} =>
              r = DRet(msg[1], None,
                       [msg |-> "unexpected ICMP message type",
                        cause |-> "nil", type |-> msg[1]])

\* A redirect was rejected.
C6_Witness ==
    /\ dec # None
    /\ ParseMessage(msg).err = "nil"
    /\ msg[1] = 5
    /\ dec[1].type = 5
    /\ dec[1].err # NilErr

====
